---------------------------- MODULE Spec2Model ----------------------------
(***************************************************************************)
(* Order placement of the shop backend (src/app.py, create_order) over the *)
(* Item, Customer, Order and OrderItem tables.                             *)
(*                                                                         *)
(* A table is a sequence of rows; the primary key of a row is its position *)
(* (the auto-increment id).  The Item table is a function from item id to  *)
(* row.  A JSON object is a function whose DOMAIN is the set of keys that  *)
(* are present, so "field not in data" is  field \notin DOMAIN data.       *)
(***************************************************************************)
EXTENDS Integers, Sequences, FiniteSets, TLC

\* ------------------------------------------------------------------ bounds
MaxStock == 2      \* largest initial Item.quantity_left
MaxQty == 2        \* largest quantity of a submitted line item
MaxLines == 2      \* longest submitted item list
MaxCategories == 2             \* Category rows (and ids) in the catalog
MaxItems == 2                  \* Item rows (and ids) in the catalog
MaxCalls == 3                  \* store-route calls of one browser session
MaxOrders == 2     \* create_order is no longer called once this many orders exist

ItemIds == {1, 2}              \* ids of the Item rows
NoItemId == Cardinality(ItemIds) + 1   \* an id with no Item row
Prices == {1, 2}               \* unit prices a caller submits (catalog price is 1)
Emails == {"e1", "e2"}
Procs == {"p1", "p2"}          \* concurrent request handlers
CategoryIds == {1, 2}
CategoryNames == <<"c1", "c2", "c3">>
NoCategoryId == Cardinality(CategoryIds) + 1   \* an id with no Category row
AdminIds == {1}
NoAdminId == Cardinality(AdminIds) + 1   \* a token identity with no Admin row
NoOrderId == MaxOrders + 1     \* an id with no Order row

VARIABLES
    db,         \* committed database: [admin, category, item, customer, order, order_item]
    call,       \* route and path parameters of the request being answered
    pre,        \* the database as it was when the request being answered arrived
    request,    \* JSON body of the request being answered (<<>> between requests)
    fault,      \* step at which the storage layer raised during that request
    response,   \* what the handler returned: [status, ...] (NoResponse between requests)
    pc,         \* per concurrent handler: "idle", "validated" or "done"
    pdata,      \* per concurrent handler: its request body
    pread,      \* per concurrent handler: result of its read phase
    presp,      \* per concurrent handler: its response
    session,    \* the Flask session of one browser: its keys and their values
    log         \* the calls that browser made to the store routes, oldest first

vars == <<db, call, pre, request, fault, response, pc, pdata, pread, presp, session, log>>

\* ------------------------------------------------------------ JSON helpers
\* dict.get(k, default)
Get(d, k, default) == IF k \in DOMAIN d THEN d[k] ELSE default

\* the object d without key k
Drop(d, k) == [x \in DOMAIN d \ {k} |-> d[x]]

\* the object d with key k set to v
With(d, k, v) == [x \in DOMAIN d \cup {k} |-> IF x = k THEN v ELSE d[x]]

\* ---------------------------------------------------------------- responses
Error(status, kind, detail) == [status |-> status, error |-> kind, detail |-> detail]

Created(order_id, total_amount) ==
    [status |-> 201, message |-> "created", order_id |-> order_id,
     total_amount |-> total_amount]

NoResponse == [status |-> 0]

NoCall == [route |-> ""]

\* except Exception as e: ... return jsonify({'error': ...}), 500
Failure == Error(500, "failed", "")

\* JSON null (Python None) where an object is expected
Null == [null |-> TRUE]

IsNull(v) == DOMAIN v = {"null"}

\* ------------------------------------------------------- request validation
required_fields_reversed == <<"payment_method", "items", "customer">>

required_fields == <<"customer", "items", "payment_method">>

customer_required == <<"first_name", "last_name", "email", "phone", "address", "city">>

\* for field in required_fields: if field not in data: return 400
MissingFieldNamesFirst(data, fields, i) ==
    IF \A k \in DOMAIN fields : fields[k] \in DOMAIN data THEN "" ELSE fields[1]

RECURSIVE MissingField(_, _, _)
MissingField(data, fields, i) ==
    IF i > Len(fields) THEN ""
    ELSE IF fields[i] \notin DOMAIN data THEN fields[i]
    ELSE MissingField(data, fields, i + 1)

\* for field in customer_required:
\*     if field not in customer_data or not customer_data[field]: return 400
RECURSIVE MissingCustomerFieldAbsentOnly(_, _, _)
MissingCustomerFieldAbsentOnly(customer_data, fields, i) ==
    IF i > Len(fields) THEN ""
    ELSE IF fields[i] \notin DOMAIN customer_data THEN fields[i]
    ELSE MissingCustomerFieldAbsentOnly(customer_data, fields, i + 1)

RECURSIVE MissingCustomerField(_, _, _)
MissingCustomerField(customer_data, fields, i) ==
    IF i > Len(fields) THEN ""
    ELSE IF fields[i] \notin DOMAIN customer_data \/ customer_data[fields[i]] = ""
         THEN fields[i]
    ELSE MissingCustomerField(customer_data, fields, i + 1)

\* if not items_data   (an empty list is falsy)
EmptyItemsNeverChecked(items_data) == FALSE

EmptyItems(items_data) == items_data = <<>>

\* item_data.get('quantity', 1)
LineQuantity(item_data) == Get(item_data, "quantity", 1)

\* not item_id or not quantity or not price   (None and 0 are falsy)
LineIncomplete(item_data) ==
    \/ "item_id" \notin DOMAIN item_data
    \/ item_data["item_id"] = 0
    \/ LineQuantity(item_data) = 0
    \/ "price" \notin DOMAIN item_data
    \/ item_data["price"] = 0

\* if not item   (db.session.get(Item, item_id) found no row)
ItemMissing(item, item_id) == item_id \notin DOMAIN item

\* return jsonify({'error': f'商品不存在: {item_id}'}), 404
NotFoundResponseAs400(item_id) == [status |-> 400, error |-> "not_found", detail |-> item_id]

NotFoundResponse(item_id) == [status |-> 404, error |-> "not_found", detail |-> item_id]

\* if not item.is_active
InactiveNeverChecked(item) == FALSE

Inactive(item) == ~item.is_active

\* the stock check of one line item against the Item row it names
InsufficientStockOffByOne(item, quantity) == item.quantity_left + 1 < quantity

InsufficientStock(item, quantity) == item.quantity_left < quantity

\* the unit price recorded for a line item: price = item_data.get('price'), whatever
\* the price of the Item row it names
SnapshotPriceFromCatalog(item, item_data) == item.price

SnapshotPrice(item, item_data) == item_data["price"]

\* the contribution of one line item to the total
LineAmountUnitPrice(item_data) == item_data["price"]

LineAmount(item_data) == item_data["price"] * LineQuantity(item_data)

\* The loop over items_data: stops at the first failing line item, otherwise
\* accumulates total_amount and order_items.
RECURSIVE CheckItems(_, _, _, _, _)
CheckItems(item, items_data, i, total_amount, order_items) ==
    IF i > Len(items_data)
    THEN [ok |-> TRUE, total_amount |-> total_amount, order_items |-> order_items]
    ELSE LET item_data == items_data[i] IN
         IF LineIncomplete(item_data)
         THEN [ok |-> FALSE, response |-> Error(400, "incomplete", i)]
         ELSE IF ItemMissing(item, item_data["item_id"])
         THEN [ok |-> FALSE, response |-> NotFoundResponse(item_data["item_id"])]
         ELSE IF Inactive(item[item_data["item_id"]])
         THEN [ok |-> FALSE, response |-> Error(400, "inactive", item_data["item_id"])]
         ELSE IF InsufficientStock(item[item_data["item_id"]], LineQuantity(item_data))
         THEN [ok |-> FALSE, response |-> Error(400, "insufficient", item_data["item_id"])]
         ELSE CheckItems(item, items_data, i + 1,
                         total_amount + LineAmount(item_data),
                         Append(order_items,
                                [item_id |-> item_data["item_id"],
                                 quantity |-> LineQuantity(item_data),
                                 price |-> SnapshotPrice(item[item_data["item_id"]],
                                                         item_data)]))

\* Customer.query.filter_by(email=...).first(): id of the row, 0 when there is none
RECURSIVE FindCustomer(_, _, _)
FindCustomer(customer, email, i) ==
    IF i > Len(customer) THEN 0
    ELSE IF customer[i].email = email THEN i
    ELSE FindCustomer(customer, email, i + 1)

\* Everything create_order reads before its first write: the validation sequence
\* and the customer lookup, against the database d this handler sees.
\* "field not in x" raises TypeError when x is None; the except clause answers 500.
ReadPhase(d, data) ==
    IF IsNull(data) THEN [ok |-> FALSE, response |-> Failure]
    ELSE LET missing == MissingField(data, required_fields, 1) IN
    IF missing # "" THEN [ok |-> FALSE, response |-> Error(400, "missing_field", missing)]
    ELSE IF IsNull(data["customer"]) THEN [ok |-> FALSE, response |-> Failure]
    ELSE LET cmissing == MissingCustomerField(data["customer"], customer_required, 1) IN
    IF cmissing # "" THEN [ok |-> FALSE, response |-> Error(400, "missing_customer", cmissing)]
    ELSE IF EmptyItems(data["items"]) THEN [ok |-> FALSE, response |-> Error(400, "empty_items", "")]
    ELSE LET c == CheckItems(d.item, data["items"], 1, 0, <<>>) IN
    IF ~c.ok THEN c
    ELSE [ok |-> TRUE,
          total_amount |-> c.total_amount,
          order_items |-> c.order_items,
          item |-> d.item,
          customer_id |-> FindCustomer(d.customer, data["customer"]["email"], 1)]

\* ------------------------------------------------------------- write phase
None == "None"                 \* Python's None in a nullable text column

Faults == {"none", "customer_flush", "order_flush", "order_item", "decrement", "commit"}

\* The Customer row built from customer_data (new row, or the fields written over
\* an existing row; the email of an existing row is the one that matched).
CustomerRow(customer_data) ==
    [first_name |-> customer_data["first_name"],
     last_name |-> customer_data["last_name"],
     email |-> customer_data["email"],
     phone |-> customer_data["phone"],
     address |-> customer_data["address"],
     city |-> customer_data["city"],
     postal_code |-> Get(customer_data, "postal_code", ""),
     country |-> Get(customer_data, "country", "TW")]

\* if customer: overwrite its fields  else: db.session.add(Customer(...))
UpsertCustomerAlwaysAdd(customer, customer_id, customer_data) ==
    Append(customer, CustomerRow(customer_data))

UpsertCustomerKeepsExisting(customer, customer_id, customer_data) ==
    IF customer_id # 0
    THEN customer
    ELSE Append(customer, CustomerRow(customer_data))

UpsertCustomer(customer, customer_id, customer_data) ==
    IF customer_id # 0
    THEN [customer EXCEPT ![customer_id] = CustomerRow(customer_data)]
    ELSE Append(customer, CustomerRow(customer_data))

\* customer.id after the flush
ResolvedCustomerId(customer, customer_id) ==
    IF customer_id # 0 THEN customer_id ELSE Len(customer) + 1

\* store_info.get(k) if store_info else None
StoreField(store_info, k) ==
    IF DOMAIN store_info = {} THEN None ELSE Get(store_info, k, None)

\* Order(customer_id=..., total_amount=..., status='pending', ...)
OrderRowWithoutMetadata(customer_id, total_amount, data) ==
    [customer_id |-> customer_id,
     total_amount |-> total_amount,
     status |-> "pending",
     delivery_method |-> "",
     store_id |-> None,
     store_name |-> None,
     store_address |-> None,
     payment_method |-> data["payment_method"],
     notes |-> ""]

OrderRow(customer_id, total_amount, data) ==
    [customer_id |-> customer_id,
     total_amount |-> total_amount,
     status |-> "pending",
     delivery_method |-> Get(data, "delivery_method", ""),
     store_id |-> StoreField(Get(data, "store_info", <<>>), "storeid"),
     store_name |-> StoreField(Get(data, "store_info", <<>>), "storename"),
     store_address |-> StoreField(Get(data, "store_info", <<>>), "storeaddress"),
     payment_method |-> data["payment_method"],
     notes |-> Get(data, "notes", "")]

\* OrderItem(order_id=order.id, item_id=item.id, quantity=quantity, price_at_time=price)
OrderItemRowQuantityOne(order_id, order_item_data) ==
    [order_id |-> order_id,
     item_id |-> order_item_data.item_id,
     quantity |-> 1,
     price_at_time |-> order_item_data.price]

OrderItemRow(order_id, order_item_data) ==
    [order_id |-> order_id,
     item_id |-> order_item_data.item_id,
     quantity |-> order_item_data.quantity,
     price_at_time |-> order_item_data.price]

\* item.quantity_left -= quantity, on the Item object the session holds
DecrementByOne(item, item_id, quantity) ==
    [item EXCEPT ![item_id].quantity_left = @ - 1]

Decrement(item, item_id, quantity) ==
    [item EXCEPT ![item_id].quantity_left = @ - quantity]

\* The loop over order_items from line i on: one OrderItem per entry, one
\* decrement per entry.  s is the session: [item (the Item objects it loaded),
\* order_item (the table with the pending rows)].
RECURSIVE AddOrderItems(_, _, _, _)
AddOrderItems(s, order_id, order_items, i) ==
    IF i > Len(order_items) THEN s
    ELSE AddOrderItems(
            [item |-> Decrement(s.item, order_items[i].item_id, order_items[i].quantity),
             order_item |-> Append(s.order_item, OrderItemRow(order_id, order_items[i]))],
            order_id, order_items, i + 1)

\* ids of the Item objects the loop modified
OrderedIds(order_items) == {order_items[i].item_id : i \in DOMAIN order_items}

\* The flush of the modified Item objects: UPDATE item SET quantity_left = <the
\* value the session computed> for each of them; other rows are not written.
FlushItems(item, session_item, ids) ==
    [id \in DOMAIN item |->
        IF id \in ids
        THEN [item[id] EXCEPT !.quantity_left = session_item[id].quantity_left]
        ELSE item[id]]

\* except Exception: db.session.rollback(): the pending changes are discarded
RollbackKeepsPending(d, pending) == pending

Rollback(d, pending) == d

\* email = db.Column(..., unique=True): the flush of the Customer rows raises when
\* two rows would carry the same email
UniqueEmailViolated(customer) ==
    \E i, j \in DOMAIN customer : i # j /\ customer[i].email = customer[j].email

\* Everything create_order does after validation, on the committed database d,
\* with r the result of its read phase, raising at step f.
WritePhase(d, r, data, f) ==
    LET customer_data == data["customer"]
        p1 == [d EXCEPT !.customer = UpsertCustomer(d.customer, r.customer_id, customer_data)]
        cid == ResolvedCustomerId(d.customer, r.customer_id)
        p2 == [p1 EXCEPT !.order = Append(p1.order, OrderRow(cid, r.total_amount, data))]
        oid == Len(p2.order)
        first == AddOrderItems([item |-> r.item, order_item |-> p2.order_item],
                               oid, SubSeq(r.order_items, 1, 1), 1)
        s == AddOrderItems([item |-> r.item, order_item |-> p2.order_item],
                           oid, r.order_items, 1)
        p3 == [p2 EXCEPT !.order_item = s.order_item,
                         !.item = FlushItems(d.item, s.item, OrderedIds(r.order_items))]
    IN  IF f = "customer_flush" \/ UniqueEmailViolated(p1.customer)
        THEN [db |-> Rollback(d, p1), response |-> Failure]
        ELSE IF f = "order_flush"
        THEN [db |-> Rollback(d, p2), response |-> Failure]
        ELSE IF f = "order_item"
        THEN [db |-> Rollback(d, p2), response |-> Failure]
        ELSE IF f = "decrement"
        THEN [db |-> Rollback(d, [p2 EXCEPT !.order_item = first.order_item]),
              response |-> Failure]
        ELSE IF f = "commit"
        THEN [db |-> Rollback(d, p3), response |-> Failure]
        ELSE [db |-> p3, response |-> Created(oid, r.total_amount)]

\* POST /api/orders, run without interleaving: its read phase, then its write phase
create_order(d, data, f) ==
    LET r == ReadPhase(d, data) IN
    IF ~r.ok THEN [db |-> d, response |-> r.response]
    ELSE WritePhase(d, r, data, f)

\* ------------------------------------------------------- admin operations
\* return jsonify({...}), 200
Ok(body) == [status |-> 200] @@ body

\* if not admin   (db.session.get(Admin, int(admin_id)) found no row)
AdminNeverChecked(d, admin_id) == FALSE

AdminMissing(d, admin_id) == admin_id \notin DOMAIN d.admin

\* return jsonify({'error': 'Admin not found'}), 404
AdminNotFound == Error(404, "admin_not_found", "")

\* the primary key an auto-increment column gives the next row of a table
NextId(table) ==
    IF DOMAIN table = {} THEN 1
    ELSE (CHOOSE id \in DOMAIN table : \A other \in DOMAIN table : other <= id) + 1

\* db.session.add(row) with primary key id
Insert(table, id, row) == [k \in DOMAIN table \cup {id} |-> IF k = id THEN row ELSE table[k]]

\* db.session.delete(row) of the row with primary key id
Remove(table, id) == [k \in DOMAIN table \ {id} |-> table[k]]

\* data.get(k) is truthy, for a text value: present and not ""
TruthyText(data, k) == k \in DOMAIN data /\ data[k] # ""

\* data.get(k) is truthy, for a number: present and not 0
TruthyNumber(data, k) == k \in DOMAIN data /\ data[k] # 0

\* the assignments update_item makes to the Item object before the category check
EditedFields(item, data) ==
    [item EXCEPT
        !.name = IF TruthyText(data, "name") THEN data["name"] ELSE @,
        !.description = IF "description" \in DOMAIN data THEN data["description"] ELSE @,
        !.price = IF TruthyNumber(data, "price") THEN data["price"] ELSE @,
        !.quantity_left = IF "quantity_left" \in DOMAIN data THEN data["quantity_left"] ELSE @,
        !.image_url = IF "image_url" \in DOMAIN data THEN data["image_url"] ELSE @]

\* the assignments update_item makes after the category check
EditedCategory(item, data) ==
    [item EXCEPT
        !.category_id = IF TruthyNumber(data, "category_id") THEN data["category_id"] ELSE @,
        !.is_active = IF "is_active" \in DOMAIN data THEN data["is_active"] ELSE @]

\* A handler that returns without commit leaves its assignments in the session;
\* the session is removed when the request ends and they are never written.
DiscardKeepsPending(d, pending) == pending

Discard(d, pending) == d

\* db.session.commit() of update_item: the edited Item row is the only row written
CommitItemRepricingOrderItems(d, item_id, item) ==
    [d EXCEPT !.item[item_id] = item,
              !.order_item = [r \in DOMAIN d.order_item |->
                                 IF d.order_item[r].item_id = item_id
                                 THEN [d.order_item[r] EXCEPT !.price_at_time = item.price]
                                 ELSE d.order_item[r]]]

CommitItem(d, item_id, item) == [d EXCEPT !.item[item_id] = item]

\* PUT /api/items/<item_id> with the token identity admin_id; f is the step at which
\* the storage layer raises.  A return before the commit leaves the assignments made
\* so far in the session, which the end of the request discards.  data.get raises
\* AttributeError on a null body; the handler has no except clause and the framework
\* answers 500.
update_item(d, admin_id, item_id, data, f) ==
    IF AdminMissing(d, admin_id)
    THEN [db |-> d, response |-> AdminNotFound]
    ELSE IF item_id \notin DOMAIN d.item
    THEN [db |-> d, response |-> Error(404, "item_not_found", "")]
    ELSE IF IsNull(data) THEN [db |-> d, response |-> Failure]
    ELSE LET item == EditedFields(d.item[item_id], data) IN
         IF TruthyNumber(data, "category_id") /\ data["category_id"] \notin DOMAIN d.category
         THEN [db |-> Discard(d, [d EXCEPT !.item[item_id] = item]),
               response |-> Error(404, "category_not_found", "")]
         ELSE LET p1 == CommitItem(d, item_id, EditedCategory(item, data)) IN
              IF f = "commit"
              THEN [db |-> Rollback(d, p1), response |-> Failure]
              ELSE [db |-> p1, response |-> Ok([message |-> "item_updated"])]

\* the rows of table whose column k holds v
RowsWith(table, k, v) == {id \in DOMAIN table : table[id][k] = v}

\* Category.query.filter_by(name=...).first() found a category other than category_id
\* (create_category has no category of its own: category_id = 0)
NameTakenNeverChecked(category, name, category_id) == FALSE

NameTaken(category, name, category_id) ==
    RowsWith(category, "name", name) \ {category_id} # {}

\* name = db.Column(..., unique=True): the commit raises when two Category rows
\* would carry the same name
UniqueNameViolated(category) ==
    \E i, j \in DOMAIN category : i # j /\ category[i].name = category[j].name

\* POST /api/categories with the token identity admin_id.  "not data" holds for a
\* null body and for an empty object.
create_category(d, admin_id, data, f) ==
    IF AdminMissing(d, admin_id)
    THEN [db |-> d, response |-> AdminNotFound]
    ELSE IF IsNull(data) \/ DOMAIN data = {} \/ ~TruthyText(data, "name")
    THEN [db |-> d, response |-> Error(400, "name_required", "")]
    ELSE IF NameTaken(d.category, data["name"], 0)
    THEN [db |-> d, response |-> Error(400, "name_exists", data["name"])]
    ELSE LET id == NextId(d.category)
             p1 == [d EXCEPT !.category =
                       Insert(d.category, id,
                              [name |-> data["name"],
                               description |-> Get(data, "description", ""),
                               image_url |-> Get(data, "image_url", "")])]
         IN  IF f = "commit" \/ UniqueNameViolated(p1.category)
             THEN [db |-> Discard(d, p1), response |-> Failure]
             ELSE [db |-> p1, response |-> [status |-> 201, id |-> id, name |-> data["name"]]]

\* PUT /api/categories/<category_id> with the token identity admin_id
update_category(d, admin_id, category_id, data, f) ==
    IF AdminMissing(d, admin_id)
    THEN [db |-> d, response |-> AdminNotFound]
    ELSE IF category_id \notin DOMAIN d.category
    THEN [db |-> d, response |-> Error(404, "category_not_found", "")]
    ELSE IF IsNull(data) THEN [db |-> d, response |-> Failure]
    ELSE IF TruthyText(data, "name") /\ NameTaken(d.category, data["name"], category_id)
    THEN [db |-> d, response |-> Error(400, "name_exists", data["name"])]
    ELSE LET p1 == [d EXCEPT
                       !.category[category_id].name =
                           IF TruthyText(data, "name") THEN data["name"] ELSE @,
                       !.category[category_id].description =
                           IF "description" \in DOMAIN data THEN data["description"] ELSE @]
         IN  IF f = "commit" \/ UniqueNameViolated(p1.category)
             THEN [db |-> Discard(d, p1), response |-> Failure]
             ELSE [db |-> p1, response |-> Ok([message |-> "category_updated"])]

\* if category.items   (the category still has Item rows)
HasItemsNeverChecked(d, category_id) == FALSE

HasItems(d, category_id) == RowsWith(d.item, "category_id", category_id) # {}

\* DELETE /api/categories/<category_id> with the token identity admin_id
delete_category(d, admin_id, category_id, f) ==
    IF AdminMissing(d, admin_id)
    THEN [db |-> d, response |-> AdminNotFound]
    ELSE IF category_id \notin DOMAIN d.category
    THEN [db |-> d, response |-> Error(404, "category_not_found", "")]
    ELSE IF HasItems(d, category_id)
    THEN [db |-> d, response |-> Error(400, "category_has_items", "")]
    ELSE LET p1 == [d EXCEPT !.category = Remove(d.category, category_id)] IN
         IF f = "commit"
         THEN [db |-> Discard(d, p1), response |-> Failure]
         ELSE [db |-> p1, response |-> Ok([message |-> "category_deleted"])]

\* POST /api/items with the token identity admin_id
create_item(d, admin_id, data, f) ==
    IF AdminMissing(d, admin_id)
    THEN [db |-> d, response |-> AdminNotFound]
    ELSE IF \/ IsNull(data) \/ DOMAIN data = {}
            \/ ~TruthyText(data, "name")
            \/ ~TruthyNumber(data, "price")
            \/ ~TruthyNumber(data, "category_id")
    THEN [db |-> d, response |-> Error(400, "missing_fields", "")]
    ELSE IF data["category_id"] \notin DOMAIN d.category
    THEN [db |-> d, response |-> Error(404, "category_not_found", "")]
    ELSE LET id == NextId(d.item)
             p1 == [d EXCEPT !.item =
                       Insert(d.item, id,
                              [name |-> data["name"],
                               description |-> Get(data, "description", ""),
                               price |-> data["price"],
                               quantity_left |-> Get(data, "quantity_left", 0),
                               image_url |-> Get(data, "image_url", ""),
                               category_id |-> data["category_id"],
                               is_active |-> Get(data, "is_active", TRUE)])]
         IN  IF f = "commit"
             THEN [db |-> Discard(d, p1), response |-> Failure]
             ELSE [db |-> p1, response |-> [status |-> 201, id |-> id, name |-> data["name"]]]

\* DELETE /api/items/<item_id> with the token identity admin_id.  The flush first
\* sets item_id of the item's OrderItem rows to NULL, which the NOT NULL column
\* refuses: the call then fails with nothing written.
delete_item(d, admin_id, item_id, f) ==
    IF AdminMissing(d, admin_id)
    THEN [db |-> d, response |-> AdminNotFound]
    ELSE IF item_id \notin DOMAIN d.item
    THEN [db |-> d, response |-> Error(404, "item_not_found", "")]
    ELSE LET p1 == [d EXCEPT !.item = Remove(d.item, item_id)] IN
         IF f = "commit" \/ RowsWith(d.order_item, "item_id", item_id) # {}
         THEN [db |-> Discard(d, p1), response |-> Failure]
         ELSE [db |-> p1, response |-> Ok([message |-> "item_deleted"])]

\* --------------------------------------------------------- store selection
\* if not storeid or not storename or not storeaddress
FormIncomplete(form) ==
    \E k \in {"storeid", "storename", "storeaddress"} : ~TruthyText(form, k)

\* the dict cvs_callback puts in the session (request.form.get gives None for an
\* absent field)
SelectedStore(form) ==
    [storeid |-> form["storeid"],
     storename |-> form["storename"],
     storeaddress |-> form["storeaddress"],
     outside |-> Get(form, "outside", None),
     ship |-> Get(form, "ship", None),
     tempvar |-> Get(form, "TempVar", None)]

\* POST /cvs_callback with the form fields form, in the session s
cvs_callback(s, form) ==
    IF FormIncomplete(form)
    THEN [session |-> s, response |-> Error(400, "store_incomplete", "")]
    ELSE [session |-> With(s, "selected_store", SelectedStore(form)),
          response |-> Ok([page |-> "store_selected"])]

\* GET /api/selected-store in the session s
get_selected_store(s) ==
    IF "selected_store" \notin DOMAIN s
    THEN [session |-> s, response |-> Error(404, "no_store", "")]
    ELSE [session |-> s, response |-> Ok(s["selected_store"])]

\* DELETE /api/selected-store in the session s: session.pop('selected_store', None)
clear_selected_store_keeping(s) ==
    [session |-> s, response |-> Ok([message |-> "store_cleared"])]

clear_selected_store(s) ==
    [session |-> Drop(s, "selected_store"), response |-> Ok([message |-> "store_cleared"])]

\* ---------------------------------------------------------- order lookup
\* The rules registered for GET requests on an order, in the order the module
\* registers them (@app.route at lines 780 and 910 give the same rule and method).
url_map ==
    <<[rule |-> "/api/orders/<int:order_id>", method |-> "GET", endpoint |-> "get_order"],
      [rule |-> "/api/orders/<int:order_id>", method |-> "GET",
       endpoint |-> "get_order_details"]>>

\* The endpoint a request is dispatched to: the first registered rule that matches.
RECURSIVE MatchRule(_, _, _, _)
MatchRule(rules, rule, method, i) ==
    IF i > Len(rules) THEN ""
    ELSE IF rules[i].rule = rule /\ rules[i].method = method THEN rules[i].endpoint
    ELSE MatchRule(rules, rule, method, i + 1)

\* no Authorization header
NoToken == 0

\* the order with its customer and its items, as both handlers return it
OrderView(d, order_id) ==
    Ok([id |-> order_id,
        order |-> d.order[order_id],
        customer |-> d.customer[d.order[order_id].customer_id],
        items |-> {d.order_item[r] : r \in RowsWith(d.order_item, "order_id", order_id)}])

\* get_order: no decorator, no identity
get_order(d, order_id) ==
    IF order_id \notin DOMAIN d.order
    THEN Error(404, "order_not_found", "")
    ELSE OrderView(d, order_id)

\* get_order_details: jwt_required() answers 401 without a token
get_order_details(d, token, order_id) ==
    IF token = NoToken THEN Error(401, "unauthorized", "")
    ELSE IF AdminMissing(d, token) THEN AdminNotFound
    ELSE IF order_id \notin DOMAIN d.order
    THEN Error(404, "order_not_found", "")
    ELSE OrderView(d, order_id)

\* GET /api/orders/<order_id> carrying token (NoToken, or the identity of a valid one)
get_order_request(d, token, order_id) ==
    LET endpoint == MatchRule(url_map, "/api/orders/<int:order_id>", "GET", 1) IN
    [endpoint |-> endpoint,
     response |-> IF endpoint = "get_order" THEN get_order(d, order_id)
                  ELSE get_order_details(d, token, order_id)]

valid_statuses == {"pending", "confirmed", "shipped", "delivered", "cancelled"}

\* if new_status not in valid_statuses
InvalidStatusNeverChecked(new_status) == FALSE

InvalidStatus(new_status) == new_status \notin valid_statuses

\* order.status = new_status: the only assignment update_order_status makes
SetStatusRestocking(d, order_id, new_status) ==
    [d EXCEPT !.order[order_id].status = new_status,
              !.item = [id \in DOMAIN d.item |->
                           IF new_status = "cancelled"
                              /\ \E r \in DOMAIN d.order_item :
                                    d.order_item[r].order_id = order_id
                                    /\ d.order_item[r].item_id = id
                           THEN [d.item[id] EXCEPT !.quantity_left = @ + 1]
                           ELSE d.item[id]]]

SetStatusForwardOnly(d, order_id, new_status) ==
    IF d.order[order_id].status \in {"delivered", "cancelled"}
    THEN d
    ELSE [d EXCEPT !.order[order_id].status = new_status]

SetStatus(d, order_id, new_status) == [d EXCEPT !.order[order_id].status = new_status]

\* PUT /api/orders/<order_id>/status with the token identity admin_id; on a
\* null body data.get raises AttributeError and the except clause answers 500
update_order_status(d, admin_id, order_id, data, f) ==
    IF AdminMissing(d, admin_id)
    THEN [db |-> d, response |-> AdminNotFound]
    ELSE IF order_id \notin DOMAIN d.order
    THEN [db |-> d, response |-> Error(404, "order_not_found", "")]
    ELSE IF IsNull(data) THEN [db |-> Rollback(d, d), response |-> Failure]
    ELSE IF ~TruthyText(data, "status")
    THEN [db |-> d, response |-> Error(400, "status_required", "")]
    ELSE IF InvalidStatus(data["status"])
    THEN [db |-> d, response |-> Error(400, "invalid_status", data["status"])]
    ELSE LET p1 == SetStatus(d, order_id, data["status"]) IN
         IF f = "commit"
         THEN [db |-> Rollback(d, p1), response |-> Failure]
         ELSE [db |-> p1,
               response |-> Ok([order_id |-> order_id,
                                old_status |-> d.order[order_id].status,
                                new_status |-> data["status"]])]

\* ------------------------------------------------------------------ inputs
Customer0 ==
    [first_name |-> "A", last_name |-> "L", email |-> "e1", phone |-> "p",
     address |-> "a", city |-> "c"]

ValidCustomers == {With(Customer0, "email", e) : e \in Emails}

BrokenCustomers ==
    {Drop(Customer0, k) : k \in DOMAIN Customer0}
    \cup {With(Customer0, k, "") : k \in DOMAIN Customer0}

Line(i, q, p) == [item_id |-> i, quantity |-> q, price |-> p]

Line0 == Line(1, 1, 1)

\* well-formed lines: every item in every quantity, item 1 at every submitted price
GoodLines ==
    {Line(i, q, 1) : i \in ItemIds, q \in 1..MaxQty} \cup {Line(1, 1, p) : p \in Prices}

BadLines ==
    {Line(0, 1, 1), Line(NoItemId, 1, 1), Line(1, 0, 1), Line(1, 0 - 1, 1), Line(1, 1, 0),
     Drop(Line0, "item_id"), Drop(Line0, "quantity"), Drop(Line0, "price")}

Lines == GoodLines \cup BadLines

\* the line items of a list of several: the same line l repeated, then a last one
PrefixLines == {Line0, Line(NoItemId, 1, 1)}

LastLines == {Line0, Line(2, 1, 1), Line(NoItemId, 1, 1)}

Repeat(l, n) == [i \in 1..n |-> l]

ItemLists ==
    {<<>>}
    \cup {<<l>> : l \in Lines}
    \cup UNION {{Append(Repeat(l, k - 1), m) : l \in PrefixLines, m \in LastLines} :
                k \in 2..MaxLines}

Data(c, its) == [customer |-> c, items |-> its, payment_method |-> "cod"]

Data0 == Data(Customer0, <<Line0>>)

\* a request with every optional field
DataFull ==
    [customer |-> With(With(With(Customer0, "first_name", "B"), "postal_code", "100"),
                       "country", "JP"),
     items |-> <<Line0>>,
     payment_method |-> "card",
     notes |-> "n",
     delivery_method |-> "711",
     store_info |-> [storeid |-> "s1", storename |-> "sn"]]

\* requests that violate several conditions of the validation sequence at once
ConflictRequests ==
    {Drop(Drop(Data0, "customer"), "payment_method"),
     Drop(Drop(Data0, "items"), "payment_method"),
     Drop(Data(Drop(Customer0, "phone"), <<Line0>>), "payment_method"),
     Data(With(Drop(Customer0, "last_name"), "city", ""), <<Line0>>),
     Data(With(With(Customer0, "first_name", ""), "email", ""), <<>>),
     Data(Drop(Customer0, "address"), <<>>),
     Data(Drop(Customer0, "email"), <<Line(NoItemId, 1, 1)>>),
     Data(Customer0, <<Line(NoItemId, 1, 0)>>),
     Data(Customer0, <<Line(2, MaxStock + MaxQty, 1)>>)}

\* requests with null where an object is expected
MalformedRequests == {Null, With(Data0, "customer", Null)}

\* bodies of update_item requests
ItemEdits ==
    {<<>>, Null,
     [price |-> 2],
     [price |-> 0],
     [quantity_left |-> 0],
     [is_active |-> FALSE],
     [is_active |-> TRUE],
     [name |-> "renamed", description |-> "d", image_url |-> "u", category_id |-> 2],
     [name |-> "", price |-> 2, category_id |-> NoCategoryId],
     [name |-> "renamed", description |-> "d", price |-> 2, quantity_left |-> 0,
      image_url |-> "u", category_id |-> NoCategoryId]}

\* bodies of update_order_status requests
StatusEdits ==
    {<<>>, Null, [status |-> ""], [status |-> "completed"], [status |-> "confirmed"],
     [status |-> "shipped"], [status |-> "delivered"], [status |-> "cancelled"],
     [status |-> "pending"]}

\* bodies of create_category requests
NewCategories ==
    {Null, <<>>, [name |-> ""], [description |-> "d"]}
    \cup {[name |-> CategoryNames[i]] : i \in DOMAIN CategoryNames}

\* bodies of update_category requests
CategoryEdits ==
    {Null, <<>>, [name |-> ""], [name |-> CategoryNames[3], description |-> "d"]}
    \cup {[name |-> CategoryNames[i]] : i \in {1, 2}}

\* who calls an admin operation without a body, and whether its commit fails
AdminAttempts == {<<1, "none">>, <<1, "commit">>, <<NoAdminId, "none">>}

\* who calls an admin operation with which body: a known admin with every body, an
\* unknown admin and a failing commit with the body data0, an unknown admin with null
BodyAttempts(bodies, data0) ==
    {<<1, data, "none">> : data \in bodies}
    \cup {<<1, data0, "commit">>, <<NoAdminId, data0, "none">>, <<NoAdminId, Null, "none">>}

\* category ids a catalog request names: those a row can have, and one beyond
NamedCategoryIds == 1..(MaxCategories + 1)

\* item ids a catalog request names: those a row can have, and one beyond
NamedItemIds == 1..(MaxItems + 1)

\* bodies of create_item requests
NewItems ==
    {Null, <<>>, [name |-> "item", price |-> 1], [name |-> "item", category_id |-> 1],
     [price |-> 1, category_id |-> 1], [name |-> "item", price |-> 0, category_id |-> 1],
     [name |-> "item", price |-> 1, category_id |-> 0]}
    \cup {[name |-> "item", price |-> 1, category_id |-> c] : c \in NamedCategoryIds}

\* bodies of update_item requests that move an item to another category
CategoryMoves ==
    {Null, [category_id |-> 0]} \cup {[category_id |-> c] : c \in NamedCategoryIds}

\* form fields 7-11 posts to cvs_callback
Form0 == [storeid |-> "s1", storename |-> "sn1", storeaddress |-> "sa1"]

Forms ==
    {Form0,
     [storeid |-> "s2", storename |-> "sn2", storeaddress |-> "sa2", outside |-> "0",
      ship |-> "1", TempVar |-> "t"],
     <<>>,
     Drop(Form0, "storeid"),
     With(Form0, "storename", ""),
     Drop(Form0, "storeaddress")}

\* create_order requests made while the catalog and the orders are being edited
AdminOrderRequests ==
    {Data0, Data(Customer0, <<Line(1, 1, 2)>>), Data(Customer0, <<Line(2, 1, 1)>>)}

Requests ==
    {Data(Customer0, its) : its \in ItemLists}
    \cup ConflictRequests
    \cup {Data(c, <<Line0>>) : c \in ValidCustomers \cup BrokenCustomers}
    \cup {Drop(Data0, k) : k \in DOMAIN Data0}
    \cup {DataFull}


\* requests of the concurrent handlers: each handler serves its own customer, so
\* the Item rows are the only rows two handlers share
EmailOf == [p \in Procs |-> IF p = "p1" THEN "e1" ELSE "e2"]

ConcRequests(p) ==
    {Data(With(Customer0, "email", EmailOf[p]), <<l>>) :
        l \in {Line(i, q, 1) : i \in ItemIds, q \in 1..MaxQty} \cup {Line(NoItemId, 1, 1)}}

\* ------------------------------------------------------------ state machine
\* The catalog the admin has set up: item 1 on sale, item 2 on sale or delisted.
InitDb(active2) ==
    [admin |-> [id \in AdminIds |-> [username |-> "admin"]],
     category |-> [id \in CategoryIds |->
                      [name |-> CategoryNames[id], description |-> "", image_url |-> ""]],
     item |-> [id \in ItemIds |->
                  [name |-> "item", description |-> "", image_url |-> "",
                   category_id |-> 1, price |-> 1, quantity_left |-> MaxStock,
                   is_active |-> IF id = 2 THEN active2 ELSE TRUE]],
     customer |-> <<>>,
     order |-> <<>>,
     order_item |-> <<>>]

Init ==
    /\ \E active2 \in BOOLEAN : db = InitDb(active2)
    /\ call = NoCall
    /\ pre = db
    /\ request = <<>>
    /\ fault = "none"
    /\ response = NoResponse
    /\ pc = [p \in Procs |-> "idle"]
    /\ pdata = [p \in Procs |-> <<>>]
    /\ pread = [p \in Procs |-> [ok |-> FALSE]]
    /\ presp = [p \in Procs |-> NoResponse]
    /\ session = <<>>
    /\ log = <<>>

\* One create_order call, from request to response.
CreateOrder(data, f) ==
    /\ response = NoResponse
    /\ LET out == create_order(db, data, f) IN
        /\ Len(out.db.order) <= MaxOrders
        /\ db' = out.db
        /\ response' = out.response
    /\ call' = [route |-> "create_order"]
    /\ pre' = db
    /\ request' = data
    /\ fault' = f
    /\ UNCHANGED <<session, log, pc, pdata, pread, presp>>

\* The storage layer can raise only once the handler writes, after validation.
FaultsOf(d, data) == IF ReadPhase(d, data).ok THEN Faults ELSE {"none"}

\* The response has been sent: the framework drops the request context.
Teardown ==
    /\ response # NoResponse
    /\ call' = NoCall
    /\ request' = <<>>
    /\ fault' = "none"
    /\ response' = NoResponse
    /\ pre' = db
    /\ UNCHANGED <<session, log, db, pc, pdata, pread, presp>>

Next ==
    \/ /\ response = NoResponse
       /\ \E data \in Requests : \E f \in FaultsOf(db, data) : CreateOrder(data, f)
    \/ Teardown

Spec == Init /\ [][Next]_vars

\* create_order called with any request body, malformed ones included
NextAnyBody ==
    \/ /\ response = NoResponse
       /\ \E data \in Requests \cup MalformedRequests :
             \E f \in FaultsOf(db, data) : CreateOrder(data, f)
    \/ Teardown

SpecAnyBody == Init /\ [][NextAnyBody]_vars

\* One update_item call, from request to response.
UpdateItem(admin_id, item_id, data, f) ==
    /\ response = NoResponse
    /\ LET out == update_item(db, admin_id, item_id, data, f) IN
        /\ db' = out.db
        /\ response' = out.response
    /\ call' = [route |-> "update_item", admin_id |-> admin_id, item_id |-> item_id]
    /\ pre' = db
    /\ request' = data
    /\ fault' = f
    /\ UNCHANGED <<session, log, pc, pdata, pread, presp>>

\* One update_order_status call, from request to response.
UpdateOrderStatus(admin_id, order_id, data, f) ==
    /\ response = NoResponse
    /\ LET out == update_order_status(db, admin_id, order_id, data, f) IN
        /\ db' = out.db
        /\ response' = out.response
    /\ call' = [route |-> "update_order_status", admin_id |-> admin_id,
                order_id |-> order_id]
    /\ pre' = db
    /\ request' = data
    /\ fault' = f
    /\ UNCHANGED <<session, log, pc, pdata, pread, presp>>

\* Orders are placed while an admin edits item 1 and the status of order 1.
NextAdmin ==
    \/ /\ response = NoResponse
       /\ \E data \in AdminOrderRequests : CreateOrder(data, "none")
    \/ /\ response = NoResponse
       /\ \E admin_id \in {1, NoAdminId}, item_id \in {1, NoItemId}, data \in ItemEdits,
             f \in {"none", "commit"} :
             UpdateItem(admin_id, item_id, data, f)
    \/ /\ response = NoResponse
       /\ \E admin_id \in {1, NoAdminId}, order_id \in {1, NoOrderId}, data \in StatusEdits,
             f \in {"none", "commit"} :
             UpdateOrderStatus(admin_id, order_id, data, f)
    \/ Teardown

SpecAdmin == Init /\ [][NextAdmin]_vars

\* One create_category call, from request to response.
CreateCategory(admin_id, data, f) ==
    /\ response = NoResponse
    /\ LET out == create_category(db, admin_id, data, f) IN
        /\ \A id \in DOMAIN out.db.category : id <= MaxCategories
        /\ db' = out.db
        /\ response' = out.response
    /\ call' = [route |-> "create_category", admin_id |-> admin_id]
    /\ pre' = db
    /\ request' = data
    /\ fault' = f
    /\ UNCHANGED <<session, log, pc, pdata, pread, presp>>

\* One update_category call, from request to response.
UpdateCategory(admin_id, category_id, data, f) ==
    /\ response = NoResponse
    /\ LET out == update_category(db, admin_id, category_id, data, f) IN
        /\ db' = out.db
        /\ response' = out.response
    /\ call' = [route |-> "update_category", admin_id |-> admin_id,
                category_id |-> category_id]
    /\ pre' = db
    /\ request' = data
    /\ fault' = f
    /\ UNCHANGED <<session, log, pc, pdata, pread, presp>>

\* One delete_category call, from request to response.
DeleteCategory(admin_id, category_id, f) ==
    /\ response = NoResponse
    /\ LET out == delete_category(db, admin_id, category_id, f) IN
        /\ db' = out.db
        /\ response' = out.response
    /\ call' = [route |-> "delete_category", admin_id |-> admin_id,
                category_id |-> category_id]
    /\ pre' = db
    /\ request' = <<>>
    /\ fault' = f
    /\ UNCHANGED <<session, log, pc, pdata, pread, presp>>

\* One create_item call, from request to response.
CreateItem(admin_id, data, f) ==
    /\ response = NoResponse
    /\ LET out == create_item(db, admin_id, data, f) IN
        /\ \A id \in DOMAIN out.db.item : id <= MaxItems
        /\ db' = out.db
        /\ response' = out.response
    /\ call' = [route |-> "create_item", admin_id |-> admin_id]
    /\ pre' = db
    /\ request' = data
    /\ fault' = f
    /\ UNCHANGED <<session, log, pc, pdata, pread, presp>>

\* One delete_item call, from request to response.
DeleteItem(admin_id, item_id, f) ==
    /\ response = NoResponse
    /\ LET out == delete_item(db, admin_id, item_id, f) IN
        /\ db' = out.db
        /\ response' = out.response
    /\ call' = [route |-> "delete_item", admin_id |-> admin_id, item_id |-> item_id]
    /\ pre' = db
    /\ request' = <<>>
    /\ fault' = f
    /\ UNCHANGED <<session, log, pc, pdata, pread, presp>>

\* the database of a new installation: one admin, no categories, no items
EmptyDb ==
    [admin |-> [id \in AdminIds |-> [username |-> "admin"]],
     category |-> <<>>,
     item |-> <<>>,
     customer |-> <<>>,
     order |-> <<>>,
     order_item |-> <<>>]

\* The catalog is edited in a new installation, or in a shop that has taken one order.
InitCatalog ==
    /\ db \in {EmptyDb, create_order(InitDb(TRUE), Data0, "none").db}
    /\ call = NoCall
    /\ pre = db
    /\ request = <<>>
    /\ fault = "none"
    /\ response = NoResponse
    /\ pc = [p \in Procs |-> "idle"]
    /\ pdata = [p \in Procs |-> <<>>]
    /\ pread = [p \in Procs |-> [ok |-> FALSE]]
    /\ presp = [p \in Procs |-> NoResponse]
    /\ session = <<>>
    /\ log = <<>>

\* Every catalog- or order-mutating admin operation, called by a known or an
\* unknown admin, with or without a failing commit.
NextCatalog ==
    \/ /\ response = NoResponse
       /\ \E a \in BodyAttempts(NewCategories, [name |-> CategoryNames[3]]) :
             CreateCategory(a[1], a[2], a[3])
    \/ /\ response = NoResponse
       /\ \E category_id \in NamedCategoryIds :
             \E a \in BodyAttempts(CategoryEdits, [name |-> CategoryNames[3]]) :
                 UpdateCategory(a[1], category_id, a[2], a[3])
    \/ /\ response = NoResponse
       /\ \E category_id \in NamedCategoryIds : \E a \in AdminAttempts :
             DeleteCategory(a[1], category_id, a[2])
    \/ /\ response = NoResponse
       /\ \E a \in BodyAttempts(NewItems, [name |-> "item", price |-> 1, category_id |-> 1]) :
             CreateItem(a[1], a[2], a[3])
    \/ /\ response = NoResponse
       /\ \E item_id \in NamedItemIds :
             \E a \in BodyAttempts(CategoryMoves, [category_id |-> 2]) :
                 UpdateItem(a[1], item_id, a[2], a[3])
    \/ /\ response = NoResponse
       /\ \E item_id \in NamedItemIds : \E a \in AdminAttempts :
             DeleteItem(a[1], item_id, a[2])
    \/ /\ response = NoResponse
       /\ \E a \in BodyAttempts({[status |-> "confirmed"]}, [status |-> "cancelled"]) :
             UpdateOrderStatus(a[1], 1, a[2], a[3])
    \/ Teardown

SpecCatalog == InitCatalog /\ [][NextCatalog]_vars

\* One GET /api/orders/<order_id> request, from dispatch to response.
GetOrder(token, order_id) ==
    /\ response = NoResponse
    /\ LET out == get_order_request(db, token, order_id) IN
        /\ response' = out.response
        /\ call' = [route |-> out.endpoint, rule |-> "/api/orders/<int:order_id>",
                    token |-> token, order_id |-> order_id]
    /\ pre' = db
    /\ request' = <<>>
    /\ fault' = "none"
    /\ UNCHANGED <<session, log, db, pc, pdata, pread, presp>>

\* Orders are placed and looked up, with and without an admin token.
NextOrderView ==
    \/ /\ response = NoResponse
       /\ \E data \in {Data(c, <<Line0>>) : c \in ValidCustomers} \cup {DataFull} :
             CreateOrder(data, "none")
    \/ /\ response = NoResponse
       /\ \E token \in {NoToken, 1, NoAdminId}, order_id \in 1..NoOrderId :
             GetOrder(token, order_id)
    \/ Teardown

SpecOrderView == Init /\ [][NextOrderView]_vars

\* One cvs_callback call, from request to response.
CvsCallback(form) ==
    /\ response = NoResponse /\ Len(log) < MaxCalls
    /\ LET out == cvs_callback(session, form) IN
        /\ session' = out.session
        /\ response' = out.response
        /\ log' = Append(log, [route |-> "cvs_callback", form |-> form,
                               status |-> out.response.status])
    /\ call' = [route |-> "cvs_callback"]
    /\ pre' = db
    /\ request' = form
    /\ fault' = "none"
    /\ UNCHANGED <<db, pc, pdata, pread, presp>>

\* One get_selected_store call, from request to response.
GetSelectedStore ==
    /\ response = NoResponse /\ Len(log) < MaxCalls
    /\ LET out == get_selected_store(session) IN
        /\ session' = out.session
        /\ response' = out.response
        /\ log' = Append(log, [route |-> "get_selected_store", form |-> <<>>,
                               status |-> out.response.status])
    /\ call' = [route |-> "get_selected_store"]
    /\ pre' = db
    /\ request' = <<>>
    /\ fault' = "none"
    /\ UNCHANGED <<db, pc, pdata, pread, presp>>

\* One clear_selected_store call, from request to response.
ClearSelectedStore ==
    /\ response = NoResponse /\ Len(log) < MaxCalls
    /\ LET out == clear_selected_store(session) IN
        /\ session' = out.session
        /\ response' = out.response
        /\ log' = Append(log, [route |-> "clear_selected_store", form |-> <<>>,
                               status |-> out.response.status])
    /\ call' = [route |-> "clear_selected_store"]
    /\ pre' = db
    /\ request' = <<>>
    /\ fault' = "none"
    /\ UNCHANGED <<db, pc, pdata, pread, presp>>

\* One browser picks, reads and clears its store.
NextSession ==
    \/ /\ response = NoResponse
       /\ \E form \in Forms : CvsCallback(form)
    \/ GetSelectedStore
    \/ ClearSelectedStore
    \/ Teardown

SpecSession == Init /\ [][NextSession]_vars

\* A handler receives its request and runs its read phase on the database as
\* committed at that moment.
Begin(p, data) ==
    /\ pc[p] = "idle"
    /\ pdata' = [pdata EXCEPT ![p] = data]
    /\ LET r == ReadPhase(db, data) IN
        IF r.ok
        THEN /\ pc' = [pc EXCEPT ![p] = "validated"]
             /\ pread' = [pread EXCEPT ![p] = r]
             /\ presp' = presp
        ELSE /\ pc' = [pc EXCEPT ![p] = "done"]
             /\ pread' = pread
             /\ presp' = [presp EXCEPT ![p] = r.response]
    /\ UNCHANGED <<session, log, db, call, pre, request, fault, response>>

\* A validated handler runs its write phase (flushes and commit) on the database
\* as committed at that moment.
Commit(p) ==
    /\ pc[p] = "validated"
    /\ LET out == WritePhase(db, pread[p], pdata[p], "none") IN
        /\ db' = out.db
        /\ presp' = [presp EXCEPT ![p] = out.response]
    /\ pc' = [pc EXCEPT ![p] = "done"]
    /\ UNCHANGED <<session, log, call, pre, request, fault, response, pdata, pread>>

NextConc ==
    \/ \E p \in Procs : \E data \in ConcRequests(p) : Begin(p, data)
    \/ \E p \in Procs : Commit(p)

SpecConc == Init /\ [][NextConc]_vars

\* ------------------------------------------------------------------ claims
\* A create_order call has just been answered.
Called == response # NoResponse

Accepted == response.status = 201

\* the submitted line items of the request being answered
SubmittedItems == IF "items" \in DOMAIN request THEN request["items"] ELSE <<>>

\* the item id a submitted line names (0 when it names none)
SubmittedId(line) == IF "item_id" \in DOMAIN line THEN line["item_id"] ELSE 0

\* the quantity a submitted line orders (1 when it gives none)
SubmittedQty(line) == IF "quantity" \in DOMAIN line THEN line["quantity"] ELSE 1

\* the quantity of item id a list of submitted lines orders in all
RECURSIVE OrderedQty(_, _)
OrderedQty(lines, id) ==
    IF lines = <<>> THEN 0
    ELSE (IF SubmittedId(Head(lines)) = id THEN SubmittedQty(Head(lines)) ELSE 0)
         + OrderedQty(Tail(lines), id)

\* sum of quantity * price over a list of submitted lines
RECURSIVE SubmittedTotal(_)
SubmittedTotal(lines) ==
    IF lines = <<>> THEN 0
    ELSE SubmittedQty(Head(lines)) * Head(lines)["price"] + SubmittedTotal(Tail(lines))

\* sum of quantity * price_at_time over the OrderItem rows of order oid
RECURSIVE OrderItemsTotal(_, _)
OrderItemsTotal(rows, oid) ==
    IF rows = <<>> THEN 0
    ELSE (IF Head(rows).order_id = oid THEN Head(rows).quantity * Head(rows).price_at_time
          ELSE 0)
         + OrderItemsTotal(Tail(rows), oid)

\* line i names an id that has no Item row
NamesMissingItem(i) ==
    /\ SubmittedId(SubmittedItems[i]) # 0
    /\ SubmittedId(SubmittedItems[i]) \notin DOMAIN pre.item

\* line i names a delisted item
NamesInactiveItem(i) ==
    /\ SubmittedId(SubmittedItems[i]) \in DOMAIN pre.item
    /\ ~pre.item[SubmittedId(SubmittedItems[i])].is_active

\* line i asks for more than the stock of the item it names
AsksMoreThanStock(i) ==
    /\ SubmittedId(SubmittedItems[i]) \in DOMAIN pre.item
    /\ SubmittedQty(SubmittedItems[i]) > pre.item[SubmittedId(SubmittedItems[i])].quantity_left

\* line i lacks an item id, a quantity or a price (absent or zero)
LacksField(i) ==
    \/ SubmittedId(SubmittedItems[i]) = 0
    \/ SubmittedQty(SubmittedItems[i]) = 0
    \/ "price" \notin DOMAIN SubmittedItems[i]
    \/ SubmittedItems[i]["price"] = 0

\* the request fails a check made before the line items are looked at
FailsTopLevel ==
    \/ \E k \in {"customer", "items", "payment_method"} : k \notin DOMAIN request
    \/ \E k \in {"first_name", "last_name", "email", "phone", "address", "city"} :
          k \notin DOMAIN request["customer"] \/ request["customer"][k] = ""

\* C1: Item.quantity_left is never negative in any reachable state, whatever
\* create_order calls were made (line items repeating an item id included).
C1_QuantityLeftNeverNegative ==
    \A id \in DOMAIN db.item : db.item[id].quantity_left >= 0

\* C2: when some line item asks for more than the quantity_left of its item, the
\* order is rejected and the database (every quantity_left, the Customer, Order and
\* OrderItem rows) is as it was before the call.
C2_InsufficientStockRejectsAll ==
    (Called /\ \E i \in DOMAIN SubmittedItems : AsksMoreThanStock(i))
        => (~Accepted /\ db = pre)

\* C2 witness: the second line item failed the stock check after the first one,
\* for another item, had passed its own.
C2_Witness ==
    /\ Called
    /\ response.status = 400 /\ response.error = "insufficient"
    /\ Len(SubmittedItems) = 2
    /\ ~AsksMoreThanStock(1) /\ AsksMoreThanStock(2)
    /\ db = pre

\* C3: an accepted order lowers quantity_left of every item by exactly the quantity
\* ordered of it (nothing for an item not in the order), adds exactly one Order and
\* exactly one OrderItem per submitted line item, in order.
C3_AcceptedOrderEffect ==
    (Called /\ Accepted) =>
        /\ \A id \in DOMAIN pre.item :
              db.item[id] = [pre.item[id] EXCEPT
                  !.quantity_left = @ - OrderedQty(SubmittedItems, id)]
        /\ Len(db.order) = Len(pre.order) + 1
        /\ SubSeq(db.order, 1, Len(pre.order)) = pre.order
        /\ Len(db.order_item) = Len(pre.order_item) + Len(SubmittedItems)
        /\ SubSeq(db.order_item, 1, Len(pre.order_item)) = pre.order_item
        /\ \A i \in DOMAIN SubmittedItems :
              LET row == db.order_item[Len(pre.order_item) + i] IN
              /\ row.order_id = Len(db.order)
              /\ row.item_id = SubmittedId(SubmittedItems[i])
              /\ row.quantity = SubmittedQty(SubmittedItems[i])

\* C3 witness: an order for two different items was accepted after an earlier
\* order, and the stock of both items went down.
C3_Witness ==
    /\ Called /\ Accepted
    /\ Len(pre.order) = 1
    /\ Len(SubmittedItems) = 2
    /\ SubmittedId(SubmittedItems[1]) # SubmittedId(SubmittedItems[2])
    /\ \A id \in DOMAIN db.item : db.item[id].quantity_left < pre.item[id].quantity_left

\* C4: the success payload carries the id of the new order and a total_amount equal
\* to the sum of quantity * price over the submitted line items.
C4_ReturnedTotal ==
    (Called /\ Accepted) =>
        /\ response.total_amount = SubmittedTotal(SubmittedItems)
        /\ response.order_id = Len(pre.order) + 1
        /\ response.order_id = Len(db.order)

\* C4 witness: an order with a line item of quantity two or more was accepted, for
\* a total above one.
C4_Witness ==
    /\ Called /\ Accepted
    /\ \E i \in DOMAIN SubmittedItems : SubmittedQty(SubmittedItems[i]) > 1
    /\ response.total_amount > 1

\* C5: a failure at any step after validation rolls everything back: the database
\* is as before the call and the caller gets the generic failure; and whatever
\* happens, a call either changes nothing or commits the whole order.
C5_AtomicOrder ==
    /\ (Called /\ fault # "none") => (db = pre /\ response = Failure)
    /\ Called =>
          \/ db = pre
          \/ /\ Accepted
             /\ Len(db.order) = Len(pre.order) + 1
             /\ Len(db.order_item) = Len(pre.order_item) + Len(SubmittedItems)
             /\ db.order[Len(db.order)].customer_id \in DOMAIN db.customer
             /\ db.customer[db.order[Len(db.order)].customer_id].email
                    = request["customer"]["email"]

\* C5 witness: the commit of an order for a new customer failed.
C5_Witness ==
    /\ Called /\ fault = "commit"
    /\ response.status = 500
    /\ FindCustomer(pre.customer, request["customer"]["email"], 1) = 0

\* C6: there is at most one Customer row per email; an order that is not turned
\* down and whose email is that of an existing customer is accepted, adds no
\* Customer row, and its Order is linked to that customer's id.
C6_OneCustomerPerEmail ==
    /\ \A i, j \in DOMAIN db.customer :
          db.customer[i].email = db.customer[j].email => i = j
    /\ (Called /\ fault = "none" /\ response.status \notin {400, 404}) =>
          \A k \in DOMAIN pre.customer :
              pre.customer[k].email = request["customer"]["email"] =>
                  /\ Accepted
                  /\ Len(db.customer) = Len(pre.customer)
                  /\ db.customer[k].email = pre.customer[k].email
                  /\ db.order[Len(db.order)].customer_id = k

\* C6 witness: an order was accepted for the email of an existing customer, under
\* another first name.
C6_Witness ==
    /\ Called /\ Accepted
    /\ \E k \in DOMAIN pre.customer :
          /\ pre.customer[k].email = request["customer"]["email"]
          /\ pre.customer[k].first_name # request["customer"]["first_name"]

\* C7 as stated: a request in which any line item names an item id that does not
\* exist is answered 404 and writes nothing.
C7_MissingItemAlways404 ==
    (Called /\ \E j \in DOMAIN SubmittedItems : NamesMissingItem(j))
        => (response.status = 404 /\ db = pre)

\* C7 amended: such a request writes nothing, and is answered 404 unless a check
\* that comes earlier in the validation sequence fails (a top-level or customer
\* field, or an earlier or the same line item being incomplete, or an earlier line
\* item naming a delisted item or asking for more than the stock): then it is
\* answered 400.
C7_MissingItemRejected ==
    Called =>
        \A j \in DOMAIN SubmittedItems :
            NamesMissingItem(j) =>
                /\ db = pre
                /\ \/ response.status = 404 /\ response.error = "not_found"
                   \/ /\ response.status = 400
                      /\ \/ FailsTopLevel
                         \/ \E i \in 1..j : LacksField(i)
                         \/ \E i \in 1..(j - 1) : NamesInactiveItem(i) \/ AsksMoreThanStock(i)

\* C7 witness: the second line item named a missing id after a valid first one.
C7_Witness ==
    /\ Called /\ response.status = 404
    /\ Len(SubmittedItems) = 2
    /\ NamesMissingItem(2) /\ ~NamesMissingItem(1)
    /\ db = pre

C9_TotalMatchesOrderItems ==
    \A oid \in DOMAIN db.order :
        OrderItemsTotal(db.order_item, oid) = db.order[oid].total_amount

\* C9 witness: an order of two line items, one of them at a price of two, has been
\* committed.
C9_Witness ==
    /\ Called /\ Accepted
    /\ \E oid \in DOMAIN db.order :
          Cardinality({r \in DOMAIN db.order_item : db.order_item[r].order_id = oid}) = 2
    /\ \E r \in DOMAIN db.order_item : db.order_item[r].price_at_time = 2

\* the outcome of handler p then handler q, one after the other, from the database
\* both started from
SerialOutcome(p, q) ==
    LET first == create_order(pre, pdata[p], "none")
        second == create_order(first.db, pdata[q], "none")
    IN  [db |-> second.db, presp |-> [x \in {p, q} |-> IF x = p THEN first.response
                                                         ELSE second.response]]

\* C10: two concurrent create_order calls are serialized: once both have answered,
\* the database and the two responses are those of the two calls run one after the
\* other in some order, and no quantity_left is negative.
C10_ConcurrentOrdersSerialized ==
    (\A p \in Procs : pc[p] = "done") =>
        /\ \E p, q \in Procs :
              /\ p # q
              /\ db = SerialOutcome(p, q).db
              /\ presp = SerialOutcome(p, q).presp
        /\ \A id \in DOMAIN db.item : db.item[id].quantity_left >= 0

\* C11: every create_order failure caused by a malformed request, a missing or empty
\* field, an inactive item or insufficient stock is answered with a client error
\* (4xx), a missing item with 404; none is answered as a server error and none
\* changes persisted state.
C11_FailuresAreClientErrors ==
    Called /\ fault = "none" /\ ~Accepted =>
        /\ response.status \in {400, 404}
        /\ response.status = 404 <=> response.error = "not_found"
        /\ db = pre

\* C12: a request containing a line item with quantity 0 or a negative quantity is
\* rejected and changes no state; no quantity_left increases as the result of an
\* order.
C12_QuantityAtLeastOne ==
    Called =>
        /\ (\E i \in DOMAIN SubmittedItems : SubmittedQty(SubmittedItems[i]) < 1) =>
              ~Accepted /\ db = pre
        /\ \A id \in DOMAIN pre.item :
              db.item[id].quantity_left <= pre.item[id].quantity_left

\* C13: a request in which any line item lacks an item identifier, a quantity or a
\* price is rejected with no state change; a line item with no quantity field is
\* not accepted.
C13_IncompleteLineRejected ==
    Called /\ (\E i \in DOMAIN SubmittedItems :
                  \E k \in {"item_id", "quantity", "price"} :
                      k \notin DOMAIN SubmittedItems[i]) =>
        ~Accepted /\ db = pre

\* the fields of a Customer row an order may overwrite, email apart
CustomerFields == {"first_name", "last_name", "phone", "address", "city"}

\* row holds the values of the submitted customer record c
HoldsSubmitted(row, c) ==
    /\ \A f \in CustomerFields : row[f] = c[f]
    /\ row.email = c["email"]
    /\ row.postal_code = (IF "postal_code" \in DOMAIN c THEN c["postal_code"] ELSE "")
    /\ row.country = (IF "country" \in DOMAIN c THEN c["country"] ELSE "TW")

\* the ids of the Customer rows that held the submitted email before the call
KnownCustomers == {k \in DOMAIN pre.customer : pre.customer[k].email = request["customer"]["email"]}

\* C14: when the email of an accepted order matches an existing customer, that
\* customer's first_name, last_name, phone, address, city, postal_code and country
\* are overwritten with the values of the request (postal_code and country taking
\* their defaults when not supplied) and its id and email stay the same; when no
\* customer has that email, exactly one new Customer is created with the supplied
\* values.  No other Customer row changes.
C14_CustomerUpsert ==
    Called /\ Accepted =>
        IF KnownCustomers # {}
        THEN /\ Len(db.customer) = Len(pre.customer)
             /\ \A k \in KnownCustomers : HoldsSubmitted(db.customer[k], request["customer"])
             /\ \A k \in DOMAIN pre.customer \ KnownCustomers : db.customer[k] = pre.customer[k]
        ELSE /\ Len(db.customer) = Len(pre.customer) + 1
             /\ HoldsSubmitted(db.customer[Len(db.customer)], request["customer"])
             /\ \A k \in DOMAIN pre.customer : db.customer[k] = pre.customer[k]

\* C14 witness: an accepted order for a known email that supplied no postal_code and
\* no country replaced the stored ones by the defaults, and the name as well.
C14_Witness ==
    /\ Called /\ Accepted
    /\ \E k \in KnownCustomers :
          /\ pre.customer[k].postal_code = "100" /\ db.customer[k].postal_code = ""
          /\ pre.customer[k].country = "JP" /\ db.customer[k].country = "TW"
          /\ pre.customer[k].first_name # db.customer[k].first_name

\* the value the request supplies for a store field (None when it supplies none)
SuppliedStore(k) ==
    IF "store_info" \in DOMAIN request /\ k \in DOMAIN request["store_info"]
    THEN request["store_info"][k]
    ELSE None

\* the value the request supplies for a top-level text field ("" when it supplies none)
SuppliedText(k) == IF k \in DOMAIN request THEN request[k] ELSE ""

\* C15: the Order created by an accepted create_order has status "pending",
\* references the customer resolved by the email upsert, stores the computed total,
\* and carries the delivery_method, store id/name/address, payment_method and notes
\* supplied in the request.
C15_OrderRecord ==
    Called /\ Accepted =>
        /\ Len(db.order) = Len(pre.order) + 1
        /\ response.order_id = Len(db.order)
        /\ LET order == db.order[Len(db.order)] IN
            /\ order.status = "pending"
            /\ order.customer_id \in DOMAIN db.customer
            /\ db.customer[order.customer_id].email = request["customer"]["email"]
            /\ order.total_amount = SubmittedTotal(SubmittedItems)
            /\ order.payment_method = request["payment_method"]
            /\ order.notes = SuppliedText("notes")
            /\ order.delivery_method = SuppliedText("delivery_method")
            /\ order.store_id = SuppliedStore("storeid")
            /\ order.store_name = SuppliedStore("storename")
            /\ order.store_address = SuppliedStore("storeaddress")
        /\ \A oid \in DOMAIN pre.order : db.order[oid] = pre.order[oid]

\* C15 witness: an order with notes, a delivery method and a store was accepted
\* after an earlier order.
C15_Witness ==
    /\ Called /\ Accepted
    /\ "store_info" \in DOMAIN request /\ "notes" \in DOMAIN request
    /\ db.order[Len(db.order)].store_id = "s1"
    /\ db.order[Len(db.order)].notes = "n"
    /\ db.order[Len(db.order)].delivery_method = "711"
    /\ Len(pre.order) > 0

\* C16: the order total and each OrderItem.price_at_time are taken from the
\* caller-supplied line-item price, not from Item.price: line item i of an accepted
\* order is recorded with price_at_time equal to its submitted price, whatever the
\* price of the Item it names, and the total is the sum of submitted price * quantity.
C16_SuppliedPriceRecorded ==
    Called /\ Accepted =>
        /\ Len(db.order_item) = Len(pre.order_item) + Len(SubmittedItems)
        /\ \A i \in DOMAIN SubmittedItems :
              LET row == db.order_item[Len(pre.order_item) + i] IN
                /\ row.order_id = response.order_id
                /\ row.item_id = SubmittedId(SubmittedItems[i])
                /\ row.price_at_time = SubmittedItems[i]["price"]
        /\ response.total_amount = SubmittedTotal(SubmittedItems)
        /\ db.order[response.order_id].total_amount = SubmittedTotal(SubmittedItems)

\* C16 witness: an accepted line item was submitted at a price other than the price
\* of the Item it names, and the submitted price is the one recorded.
C16_Witness ==
    /\ Called /\ Accepted
    /\ \E i \in DOMAIN SubmittedItems :
          /\ SubmittedItems[i]["price"] # pre.item[SubmittedId(SubmittedItems[i])].price
          /\ db.order_item[Len(pre.order_item) + i].price_at_time = SubmittedItems[i]["price"]
          /\ response.total_amount # pre.item[SubmittedId(SubmittedItems[i])].price
                                        * SubmittedQty(SubmittedItems[i])

\* the validation sequence as the specification lists it
TopLevelOrder == <<"customer", "items", "payment_method">>

CustomerOrder == <<"first_name", "last_name", "email", "phone", "address", "city">>

\* the submitted customer record lacks field k or holds an empty value for it
CustomerLacks(k) == k \notin DOMAIN request["customer"] \/ request["customer"][k] = ""

\* the first check line item i fails, in the order incomplete, not found, inactive,
\* insufficient stock (NoResponse when it passes all four)
LineFailure(i) ==
    IF LacksField(i) THEN Error(400, "incomplete", i)
    ELSE IF NamesMissingItem(i) THEN Error(404, "not_found", SubmittedId(SubmittedItems[i]))
    ELSE IF NamesInactiveItem(i) THEN Error(400, "inactive", SubmittedId(SubmittedItems[i]))
    ELSE IF AsksMoreThanStock(i) THEN Error(400, "insufficient", SubmittedId(SubmittedItems[i]))
    ELSE NoResponse

\* the first failing condition of the request being answered, in the order of the
\* validation sequence (NoResponse when no condition fails)
FirstFailure ==
    IF \E i \in DOMAIN TopLevelOrder : TopLevelOrder[i] \notin DOMAIN request
    THEN LET i == CHOOSE i \in DOMAIN TopLevelOrder :
                      /\ TopLevelOrder[i] \notin DOMAIN request
                      /\ \A j \in 1..(i - 1) : TopLevelOrder[j] \in DOMAIN request
         IN  Error(400, "missing_field", TopLevelOrder[i])
    ELSE IF \E i \in DOMAIN CustomerOrder : CustomerLacks(CustomerOrder[i])
    THEN LET i == CHOOSE i \in DOMAIN CustomerOrder :
                      /\ CustomerLacks(CustomerOrder[i])
                      /\ \A j \in 1..(i - 1) : ~CustomerLacks(CustomerOrder[j])
         IN  Error(400, "missing_customer", CustomerOrder[i])
    ELSE IF SubmittedItems = <<>> THEN Error(400, "empty_items", "")
    ELSE IF \E i \in DOMAIN SubmittedItems : LineFailure(i) # NoResponse
    THEN LET i == CHOOSE i \in DOMAIN SubmittedItems :
                      /\ LineFailure(i) # NoResponse
                      /\ \A j \in 1..(i - 1) : LineFailure(j) = NoResponse
         IN  LineFailure(i)
    ELSE NoResponse

\* the number of conditions of the validation sequence the request violates
Violations ==
    Cardinality({k \in {"customer", "items", "payment_method"} : k \notin DOMAIN request})
    + (IF "customer" \in DOMAIN request
       THEN Cardinality({k \in {"first_name", "last_name", "email", "phone", "address", "city"} :
                            CustomerLacks(k)})
       ELSE 0)
    + (IF "items" \in DOMAIN request /\ request["items"] = <<>> THEN 1 ELSE 0)
    + Cardinality({i \in DOMAIN SubmittedItems : LineFailure(i) # NoResponse})

CustomerIncomplete ==
    /\ "customer" \in DOMAIN request
    /\ \E i \in DOMAIN CustomerOrder : CustomerLacks(CustomerOrder[i])

\* C20 (as stated): a request whose customer record lacks any of first_name,
\* last_name, email, phone, address, city, or has an empty value for any of them, is
\* rejected naming the field, with no state change.
C20_CustomerFieldAlwaysNamed ==
    Called /\ CustomerIncomplete =>
        /\ response.status = 400
        /\ response.error = "missing_customer"
        /\ \E i \in DOMAIN CustomerOrder :
              response.detail = CustomerOrder[i] /\ CustomerLacks(CustomerOrder[i])
        /\ db = pre

\* C20 (amended): such a request is rejected with 400 and no state change; the error
\* names the first of the six fields, in the order first_name, last_name, email,
\* phone, address, city, that is absent or empty, provided items and payment_method
\* are present; otherwise it names the absent top-level field.
C20_CustomerFieldRejected ==
    Called /\ CustomerIncomplete =>
        /\ response.status = 400
        /\ db = pre
        /\ IF "items" \in DOMAIN request /\ "payment_method" \in DOMAIN request
           THEN /\ response.error = "missing_customer"
                /\ \E i \in DOMAIN CustomerOrder :
                      /\ response.detail = CustomerOrder[i]
                      /\ CustomerLacks(CustomerOrder[i])
                      /\ \A j \in 1..(i - 1) : ~CustomerLacks(CustomerOrder[j])
           ELSE /\ response.error = "missing_field"
                /\ response.detail \in {"items", "payment_method"}
                /\ response.detail \notin DOMAIN request

\* C20 witness: a customer record holding an empty value for a field it does carry
\* was rejected naming that field, after an earlier order left rows to preserve.
C20_Witness ==
    /\ Called /\ CustomerIncomplete
    /\ response.status = 400 /\ response.error = "missing_customer"
    /\ response.detail \in DOMAIN request["customer"]
    /\ request["customer"][response.detail] = ""
    /\ Len(pre.order) > 0
    /\ db = pre

\* the five values the specification allows for Order.status
StatusEnum == {"pending", "confirmed", "shipped", "delivered", "cancelled"}

\* an update_order_status call by a known admin on an existing order, with a JSON
\* object as its body, was answered
StatusCalled ==
    /\ Called /\ call.route = "update_order_status"
    /\ ~IsNull(request)
    /\ call.admin_id \in DOMAIN pre.admin
    /\ call.order_id \in DOMAIN pre.order

\* the body of the request being answered gives no status or one outside the enum
StatusRefused ==
    \/ "status" \notin DOMAIN request
    \/ request["status"] \notin StatusEnum

C18_OrderItemImmutable ==
    [][\A r \in DOMAIN db.order_item :
          /\ r \in DOMAIN db'.order_item
          /\ db'.order_item[r].price_at_time = db.order_item[r].price_at_time
          /\ db'.order_item[r].quantity = db.order_item[r].quantity
          /\ db'.order_item[r].item_id = db.order_item[r].item_id
          /\ db'.order_item[r].order_id = db.order_item[r].order_id]_vars

\* C18 witness: an OrderItem of item 1 still carries the price of one it was created
\* with, after item 1 was repriced to two, a later order bought item 1 at two and the
\* status of the first order was changed.
C18_Witness ==
    /\ \E r1, r2 \in DOMAIN db.order_item :
          /\ r1 < r2
          /\ db.order_item[r1].item_id = 1 /\ db.order_item[r1].price_at_time = 1
          /\ db.order_item[r2].item_id = 1 /\ db.order_item[r2].price_at_time = 2
    /\ db.item[1].price = 2
    /\ db.order[1].status # "pending"

\* C21: a request that lacks any of the top-level fields customer, items,
\* payment_method is rejected (400) naming a missing field (the first one in that
\* order), with no state change.
C21_MissingTopLevelRejected ==
    Called /\ (\E i \in DOMAIN TopLevelOrder : TopLevelOrder[i] \notin DOMAIN request) =>
        /\ response.status = 400
        /\ response.error = "missing_field"
        /\ \E i \in DOMAIN TopLevelOrder :
              /\ response.detail = TopLevelOrder[i]
              /\ TopLevelOrder[i] \notin DOMAIN request
              /\ \A j \in 1..(i - 1) : TopLevelOrder[j] \in DOMAIN request
        /\ db = pre

\* C21 witness: a request carrying a customer but no items was rejected naming
\* items, after an earlier order left rows to preserve.
C21_Witness ==
    /\ Called
    /\ "customer" \in DOMAIN request /\ "items" \notin DOMAIN request
    /\ response = Error(400, "missing_field", "items")
    /\ Len(pre.order) > 0
    /\ db = pre

\* the OrderItem rows of order oid
ItemsOfOrder(oid) == {r \in DOMAIN db.order_item : db.order_item[r].order_id = oid}

\* C22: a request whose item list is empty is rejected with a client error and no
\* state change; no Order with zero OrderItems exists in any reachable state.
C22_EmptyItemsRejected ==
    /\ Called /\ "items" \in DOMAIN request /\ request["items"] = <<>> =>
          response.status = 400 /\ db = pre
    /\ \A oid \in DOMAIN db.order : ItemsOfOrder(oid) # {}

\* C22 witness: an otherwise valid request with an empty item list was rejected as
\* such, after an earlier order.
C22_Witness ==
    /\ Called /\ "items" \in DOMAIN request /\ request["items"] = <<>>
    /\ response = Error(400, "empty_items", "")
    /\ Len(pre.order) > 0
    /\ \A oid \in DOMAIN db.order : ItemsOfOrder(oid) # {}
    /\ db = pre

\* the fields of an Order row other than its status
OrderFrame(order) ==
    [k \in DOMAIN order \ {"status"} |-> order[k]]

\* C23: update_order_status changes only the status of the addressed order: its
\* total_amount and other fields, its OrderItems, its customer, every other order
\* and every Item (quantity_left included) are unchanged; setting an order to
\* cancelled does not add the ordered quantities back to stock.
C23_StatusUpdateFrame ==
    Called /\ call.route = "update_order_status" =>
        /\ db.item = pre.item
        /\ db.order_item = pre.order_item
        /\ db.customer = pre.customer
        /\ db.category = pre.category
        /\ db.admin = pre.admin
        /\ DOMAIN db.order = DOMAIN pre.order
        /\ \A oid \in DOMAIN pre.order :
              IF oid = call.order_id
              THEN OrderFrame(db.order[oid]) = OrderFrame(pre.order[oid])
              ELSE db.order[oid] = pre.order[oid]

\* C23 witness: order 1, which had taken stock, was set to cancelled while a second
\* order existed; the stock stayed lowered.
C23_Witness ==
    /\ Called /\ call.route = "update_order_status" /\ response.status = 200
    /\ call.order_id = 1 /\ Len(db.order) > 1
    /\ pre.order[1].status # "cancelled" /\ db.order[1].status = "cancelled"
    /\ \E r \in DOMAIN db.order_item :
          /\ db.order_item[r].order_id = 1
          /\ db.item[db.order_item[r].item_id].quantity_left < MaxStock
          /\ db.item[db.order_item[r].item_id] = pre.item[db.order_item[r].item_id]

\* C24: update_order_status imposes no ordering on the order lifecycle: whatever the
\* current status of the order, a call by an admin asking for any of the five valid
\* statuses is answered 200, stores that status and reports the previous one as
\* old_status (storage failures apart).
C24_AnyTransitionAllowed ==
    StatusCalled /\ fault = "none" /\ "status" \in DOMAIN request
    /\ request["status"] \in StatusEnum =>
        /\ response.status = 200
        /\ response.old_status = pre.order[call.order_id].status
        /\ response.new_status = request["status"]
        /\ db.order[call.order_id].status = request["status"]

\* C24 witness: a delivered order was moved back to pending in one call.
C24_Witness ==
    /\ StatusCalled /\ response.status = 200
    /\ pre.order[call.order_id].status = "delivered"
    /\ response.old_status = "delivered"
    /\ db.order[call.order_id].status = "pending"

\* an update_item call by a known admin on an existing item, with a JSON object as
\* its body, was answered
ItemCalled ==
    /\ Called /\ call.route = "update_item"
    /\ ~IsNull(request)
    /\ call.admin_id \in DOMAIN pre.admin
    /\ call.item_id \in DOMAIN pre.item

\* the body of the request being answered names a category that does not exist
NamesMissingCategory ==
    /\ "category_id" \in DOMAIN request
    /\ request["category_id"] # 0
    /\ request["category_id"] \notin DOMAIN pre.category

\* C27: update_item is all-or-nothing on error: when the request names a category_id
\* that does not exist, the call returns 404 and none of the other fields sent in the
\* same request (name, description, price, quantity_left, image_url) is persisted on
\* the item; nothing else changes either.
C27_UpdateItemAllOrNothing ==
    ItemCalled /\ NamesMissingCategory =>
        /\ response.status = 404
        /\ db = pre

\* C27 witness: a request that sent a new name, description, price, quantity_left and
\* image_url together with a missing category was answered 404 and the item kept all
\* five values.
C27_Witness ==
    /\ ItemCalled /\ NamesMissingCategory
    /\ \A k \in {"name", "description", "price", "quantity_left", "image_url"} :
          /\ k \in DOMAIN request
          /\ request[k] # pre.item[call.item_id][k]
          /\ db.item[call.item_id][k] = pre.item[call.item_id][k]
    /\ response.status = 404

\* the routes that create, edit or delete catalog rows
CatalogRoutes ==
    {"create_category", "update_category", "delete_category",
     "create_item", "update_item", "delete_item"}

\* a request body names category c for the item it creates or edits
AsksCategory(c) ==
    /\ ~IsNull(request)
    /\ "category_id" \in DOMAIN request
    /\ request["category_id"] = c

\* C25: after any sequence of create_item, update_item, delete_item, create_category
\* and delete_category calls, every Item's category_id refers to an existing
\* Category: create_item and update_item naming a category that does not exist are
\* rejected with no change, and delete_category refuses (400) to delete a
\* category that still has items.
C25_ItemCategoryExists ==
    /\ \A id \in DOMAIN db.item : db.item[id].category_id \in DOMAIN db.category
    /\ Called /\ call.route = "delete_category" /\ call.admin_id \in DOMAIN pre.admin
       /\ (\E id \in DOMAIN pre.item : pre.item[id].category_id = call.category_id) =>
          response.status = 400 /\ db = pre
    /\ Called /\ call.route \in {"create_item", "update_item"}
       /\ (\E c \in NamedCategoryIds \ DOMAIN pre.category : AsksCategory(c)) =>
          response.status \in {400, 404} /\ db = pre

\* C25 witness: deleting a category that still had an item was refused.
C25_Witness ==
    /\ Called /\ call.route = "delete_category"
    /\ \E id \in DOMAIN pre.item : pre.item[id].category_id = call.category_id
    /\ response = Error(400, "category_has_items", "")
    /\ call.category_id \in DOMAIN db.category
    /\ db = pre

\* the ids of the categories that carried name n before the call
NamedBefore(n) == {id \in DOMAIN pre.category : pre.category[id].name = n}

\* the request being answered asks for a category name (a non-empty one)
AsksName ==
    /\ ~IsNull(request)
    /\ "name" \in DOMAIN request
    /\ request["name"] # ""

\* C26: after any sequence of create_category and update_category calls no two
\* categories have the same name: creating with an existing name, or renaming to the
\* name of a different category, is rejected (400) with no change, while renaming a
\* category to its own current name is accepted.
C26_CategoryNamesUnique ==
    /\ \A i, j \in DOMAIN db.category :
          db.category[i].name = db.category[j].name => i = j
    /\ Called /\ call.route = "create_category" /\ call.admin_id \in DOMAIN pre.admin
       /\ AsksName /\ NamedBefore(request["name"]) # {} =>
          response.status = 400 /\ db = pre
    /\ Called /\ call.route = "update_category" /\ call.admin_id \in DOMAIN pre.admin
       /\ call.category_id \in DOMAIN pre.category /\ AsksName =>
          IF NamedBefore(request["name"]) \ {call.category_id} # {}
          THEN response.status = 400 /\ db = pre
          ELSE fault = "none" =>
                  /\ response.status = 200
                  /\ db.category[call.category_id].name = request["name"]

\* C26 witness: while another category existed, a category was renamed to the name
\* it already had, which was accepted.
C26_Witness ==
    /\ Called /\ call.route = "update_category" /\ AsksName
    /\ call.category_id \in DOMAIN pre.category
    /\ pre.category[call.category_id].name = request["name"]
    /\ Cardinality(DOMAIN pre.category) > 1
    /\ response.status = 200
    /\ db.category[call.category_id].name = request["name"]

\* the catalog- or order-mutating admin routes
AdminRoutes == CatalogRoutes \cup {"update_order_status"}

\* an admin route was called with a token whose identity is not an Admin row
UnknownAdminCalled ==
    /\ Called /\ call.route \in AdminRoutes
    /\ call.admin_id \notin DOMAIN pre.admin

\* C29: every catalog- or order-mutating admin operation (create/update/delete
\* category, create/update/delete item, update_order_status) checks that the token
\* identity is an existing Admin before it reads the request body or touches data:
\* when the admin does not exist the call returns 404, whatever the body and the
\* addressed row, and leaves all categories, items and orders unchanged.
C29_UnknownAdminRejected ==
    UnknownAdminCalled =>
        /\ response = Error(404, "admin_not_found", "")
        /\ db = pre

\* C29 witness: an unknown admin sent a null body to create_item in a shop that had
\* categories, items and an order, and was answered 404.
C29_Witness ==
    /\ UnknownAdminCalled /\ call.route = "create_item" /\ IsNull(request)
    /\ DOMAIN pre.category # {} /\ DOMAIN pre.item # {} /\ DOMAIN pre.order # {}
    /\ response.status = 404
    /\ db = pre

\* the response being sent carries the data of an order
CarriesOrderData == response.status = 200 /\ "customer" \in DOMAIN response

\* C28: order details, including the customer's name, email, phone and address, are
\* returned by GET /api/orders/<order_id> only to a request carrying a valid admin
\* token: a request without a token, or with the token of no existing admin, is
\* never answered with the order's data.
C28_OrderDetailsNeedAdmin ==
    Called /\ "rule" \in DOMAIN call /\ call.rule = "/api/orders/<int:order_id>"
    /\ (call.token = NoToken \/ call.token \notin DOMAIN db.admin) =>
        ~CarriesOrderData

\* the store id, name and address of a record that carries them
StoreOf(record) ==
    [storeid |-> record["storeid"],
     storename |-> record["storename"],
     storeaddress |-> record["storeaddress"]]

\* the store selected after the calls of l: that of the most recent successful
\* cvs_callback not followed by a DELETE, as a set of at most one store
RECURSIVE SelectedAfter(_)
SelectedAfter(l) ==
    IF l = <<>> THEN {}
    ELSE LET last == l[Len(l)] IN
         IF last.route = "cvs_callback" /\ last.status = 200 THEN {StoreOf(last.form)}
         ELSE IF last.route = "clear_selected_store" THEN {}
         ELSE SelectedAfter(SubSeq(l, 1, Len(l) - 1))

\* the calls of the session before the one being answered
EarlierCalls == SubSeq(log, 1, Len(log) - 1)

\* C30: for one session, GET /api/selected-store returns the store data of the most
\* recent successful cvs_callback that has not been followed by DELETE
\* /api/selected-store, and 404 otherwise; a cvs_callback missing storeid, storename
\* or storeaddress (or with an empty one) returns 400 and leaves the previously
\* selected store unchanged; DELETE always succeeds and leaves no store selected.
C30_SelectedStore ==
    /\ IF SelectedAfter(log) = {}
       THEN "selected_store" \notin DOMAIN session
       ELSE /\ "selected_store" \in DOMAIN session
            /\ SelectedAfter(log) = {StoreOf(session["selected_store"])}
    /\ Called /\ call.route = "get_selected_store" =>
          IF SelectedAfter(EarlierCalls) = {}
          THEN response.status = 404
          ELSE /\ response.status = 200
               /\ SelectedAfter(EarlierCalls) = {StoreOf(response)}
    /\ Called /\ call.route = "cvs_callback" =>
          IF \E k \in {"storeid", "storename", "storeaddress"} :
                k \notin DOMAIN request \/ request[k] = ""
          THEN response.status = 400 /\ SelectedAfter(log) = SelectedAfter(EarlierCalls)
          ELSE response.status = 200 /\ SelectedAfter(log) = {StoreOf(request)}
    /\ Called /\ call.route = "clear_selected_store" =>
          response.status = 200 /\ "selected_store" \notin DOMAIN session

\* C30 witness: after a successful cvs_callback and a second one that lacked a field
\* and was answered 400, GET returned the store of the first.
C30_Witness ==
    /\ Called /\ call.route = "get_selected_store" /\ Len(log) = 3
    /\ log[1].route = "cvs_callback" /\ log[1].status = 200
    /\ log[2].route = "cvs_callback" /\ log[2].status = 400
    /\ response.status = 200
    /\ response.storeid = log[1].form["storeid"]

=============================================================================
